---- MODULE Spec2Model ----
(***************************************************************************)
(* A model of the gauge benchmark runner (src/src/gauge/runner.cpp): the   *)
(* registry, the command line options, filter resolution, the              *)
(* configuration loop, the per-run measurement loop, the results table     *)
(* and the printer (sink) notifications.                                   *)
(*                                                                         *)
(* Strings are sequences of one-character strings, so that std::getline    *)
(* and the ordering of std::map<std::string, ...> are computed and not     *)
(* assumed.                                                                *)
(***************************************************************************)
EXTENDS Integers, Sequences, FiniteSets, TLC

(***************************************************************************)
(* Bounds of the model.                                                    *)
(***************************************************************************)
\* registrations made during static initialisation
MaxBenchmarks == 2
\* option arguments on the command line (argc - 1)
MaxArgs == 2
\* configuration sets a benchmark registers in get_options
MaxConfigs == 2
\* largest run count (declared by runs() or given by --runs)
MaxRuns == 2
\* rejected measurement cycles explored in one run_benchmark call
MaxRejects == 1
\* printers pushed into runner::printers()
NumPrinters == 2
\* threads that register benchmarks concurrently
NumThreads == 2
\* register_id calls of one thread, or of the sequential caller
MaxCalls == 2
\* counter values next to 1 and next to the maximum that a window starts at
RegisterWindow == 24

(***************************************************************************)
(* Strings.                                                                *)
(***************************************************************************)
CharCode ==
    ("*" :> 42) @@ ("." :> 46) @@ ("1" :> 49) @@ ("2" :> 50) @@ ("=" :> 61) @@
    ("_" :> 95) @@
    ("a" :> 97) @@ ("b" :> 98) @@ ("c" :> 99) @@ ("e" :> 101) @@
    ("h" :> 104) @@ ("i" :> 105) @@ ("k" :> 107) @@ ("l" :> 108) @@ ("m" :> 109) @@
    ("n" :> 110) @@ ("o" :> 111) @@ ("p" :> 112) @@ ("q" :> 113) @@ ("r" :> 114) @@
    ("s" :> 115) @@ ("t" :> 116) @@ ("u" :> 117) @@ ("x" :> 120) @@
    ("y" :> 121) @@ ("z" :> 122)

\* std::string operator< : lexicographic on the character codes
RECURSIVE StrLess(_, _)
StrLess(s, t) ==
    IF t = <<>> THEN FALSE
    ELSE IF s = <<>> THEN TRUE
    ELSE IF CharCode[Head(s)] # CharCode[Head(t)]
         THEN CharCode[Head(s)] < CharCode[Head(t)]
         ELSE StrLess(Tail(s), Tail(t))

\* the keys of a std::map<std::string, T> in iteration order
RECURSIVE SortedKeys(_)
SortedKeys(S) ==
    IF S = {} THEN <<>>
    ELSE LET least == CHOOSE k \in S : \A o \in S \ {k} : StrLess(k, o)
         IN  <<least>> \o SortedKeys(S \ {least})

\* the keys of a std::map<uint32_t, T> in iteration order
RECURSIVE SortedIds(_)
SortedIds(S) ==
    IF S = {} THEN <<>>
    ELSE LET least == CHOOSE k \in S : \A o \in S : k <= o
         IN  <<least>> \o SortedIds(S \ {least})

\* all sequences over S of length at most n
SeqsUpTo(S, n) == UNION {[1..k -> S] : k \in 0..n}

Range(s) == {s[i] : i \in 1..Len(s)}

\* std::istringstream over a string: the buffer, the read position and the
\* eofbit / failbit state flags
IStringStream(str) == [buf |-> str, pos |-> 1, eof |-> FALSE, fail |-> FALSE]

\* operator! of a stream: failbit (or badbit) is set
StreamFailed(ss) == ss.fail

\* std::getline(stream, line, delim): the line and the stream afterwards
GetLine(ss, delim) ==
    IF ss.eof \/ ss.fail
    THEN \* the sentry fails on a stream that is not good()
         [line |-> <<>>, ss |-> [ss EXCEPT !.fail = TRUE]]
    ELSE LET n    == Len(ss.buf)
             hits == {i \in ss.pos..n : ss.buf[i] = delim}
         IN  IF hits # {}
             THEN LET d == CHOOSE i \in hits : \A j \in hits : i <= j
                  IN  \* the delimiter is extracted and discarded
                      [line |-> SubSeq(ss.buf, ss.pos, d - 1),
                       ss   |-> [ss EXCEPT !.pos = d + 1]]
             ELSE \* end of input: eofbit, and failbit when nothing was read
                  [line |-> SubSeq(ss.buf, ss.pos, n),
                   ss   |-> [ss EXCEPT !.pos = n + 1, !.eof = TRUE,
                                       !.fail = (ss.pos > n)]]

NewLine == "\n"

(***************************************************************************)
(* Names used by the inputs.                                               *)
(***************************************************************************)
TestcaseNames  == {<<"a">>, <<"b">>}
BenchmarkNames == {<<"q">>, <<"m">>}

UNIT       == <<"u", "n", "i", "t">>
BENCHMARK  == <<"b", "e", "n", "c", "h", "m", "a", "r", "k">>
TESTCASE   == <<"t", "e", "s", "t", "c", "a", "s", "e">>
ITERATIONS == <<"i", "t", "e", "r", "a", "t", "i", "o", "n", "s">>
RUN_NUMBER == <<"r", "u", "n", "_", "n", "u", "m", "b", "e", "r">>
TIME       == <<"t", "i", "m", "e">>

(***************************************************************************)
(* The results table (tables::table, an external library): an ordered      *)
(* list of columns, constant or per-row, and the rows in run order.  An    *)
(* optional value is a sequence of length at most one.                     *)
(***************************************************************************)
EmptyTable == [columns |-> <<>>, rows |-> <<>>]

ColumnNames(t) == [i \in 1..Len(t.columns) |-> t.columns[i].name]

RowColumns(t) == {t.columns[i].name : i \in {j \in 1..Len(t.columns) : ~t.columns[j].const}}

has_column(t, name) == \E i \in 1..Len(t.columns) : t.columns[i].name = name

add_const_column(t, name, value) ==
    [t EXCEPT !.columns = Append(@, [name |-> name, const |-> TRUE, value |-> <<value>>,
                                     declared |-> Len(t.rows)])]

add_column(t, name) ==
    [columns |-> Append(t.columns, [name |-> name, const |-> FALSE, value |-> <<>>,
                                    declared |-> Len(t.rows)]),
     rows    |-> [r \in 1..Len(t.rows) |->
                     [c \in RowColumns(t) \cup {name} |->
                         IF c = name THEN <<>> ELSE t.rows[r][c]]]]

add_row(t) == [t EXCEPT !.rows = Append(@, [c \in RowColumns(t) |-> <<>>])]

set_value(t, name, value) ==
    [t EXCEPT !.rows[Len(t.rows)][name] = <<value>>]

RECURSIVE SelectColumns(_, _)
SelectColumns(cols, name) ==
    IF cols = <<>> THEN <<>>
    ELSE IF Head(cols).name = name THEN SelectColumns(Tail(cols), name)
         ELSE <<Head(cols)>> \o SelectColumns(Tail(cols), name)

drop_column(t, name) ==
    LET cols == SelectColumns(t.columns, name)
        keep == {cols[i].name : i \in {j \in 1..Len(cols) : ~cols[j].const}}
    IN  [columns |-> cols,
         rows    |-> [r \in 1..Len(t.rows) |-> [c \in keep |-> t.rows[r][c]]]]

(***************************************************************************)
(* The command line.                                                       *)
(***************************************************************************)
\* values of --add_column
AddColumnInputs ==
    { <<"x", "=", "1">>, <<"y", "=", "2">>, <<"x", "=", "2">>, <<"y", "=">> }

\* values of --gauge_filter
FilterInputs ==
    { <<"*", ".", "*">>, <<"*", ".", "q">>, <<"a", ".", "*">>, <<"a", ".", "q">>,
      <<"a">>, <<".", "q">>, <<"a", ".">> }

\* values of --result_filter
ResultFilterInputs == { ITERATIONS, UNIT, <<"k">> }

\* the value of an option that was not given
NotGiven == <<>>

\* printer::printer(name, enabled): the default of the use_<name> option
DefaultEnabled(p) == p = 1

Printers == 1..NumPrinters

Flag(b) == IF b THEN 1 ELSE 0

\* the number of command line arguments a set of parsed options stands for
ArgCount(o) ==
    Flag(o.help) + Flag(o.print_tests) + Flag(o.print_benchmarks) + Flag(o.dry_run)
    + Len(o.add_column) + Len(o.gauge_filter) + Len(o.result_filter) + Len(o.runs)
    + Cardinality({p \in Printers : o.use[p] # DefaultEnabled(p)})

\* what cxxopts hands back for a command line of at most MaxArgs arguments
ParseResults ==
    UNION { UNION { UNION {
        { o \in [help : BOOLEAN, print_tests : BOOLEAN, print_benchmarks : BOOLEAN,
                 dry_run : BOOLEAN, add_column : {ac}, gauge_filter : {gf},
                 result_filter : {rf},
                 runs : {NotGiven} \cup {<<n>> : n \in 0..MaxRuns},
                 use : [Printers -> BOOLEAN]] : ArgCount(o) <= MaxArgs }
        : rf \in SeqsUpTo(ResultFilterInputs, MaxArgs - Len(ac) - Len(gf)) }
        : gf \in SeqsUpTo(FilterInputs, MaxArgs - Len(ac)) }
        : ac \in SeqsUpTo(AddColumnInputs, MaxArgs) }

NoOptions ==
    [help |-> FALSE, print_tests |-> FALSE, print_benchmarks |-> FALSE,
     dry_run |-> FALSE, add_column |-> <<>>, gauge_filter |-> <<>>,
     result_filter |-> <<>>, runs |-> NotGiven,
     use |-> [p \in Printers |-> DefaultEnabled(p)]]

(***************************************************************************)
(* The state.                                                              *)
(***************************************************************************)
VARIABLES
    pc,            \* where the process is
    id,            \* the static counter of register_id
    id0,           \* the value the counter had before the calls observed
    ids,           \* the ids register_id has returned, in order of return
    threads,       \* per registering thread: where it is in register_id
    m_benchmarks,  \* impl::m_benchmarks: id -> the factory, given by its names
    m_testcases,   \* impl::m_testcases: testcase name -> benchmark name -> id
    m_options,     \* impl::m_options: the parsed command line
    m_columns,     \* impl::m_columns: column name -> value
    m_enabled,     \* printer::m_enabled of every registered printer
    m_current_benchmark, \* impl::m_current_benchmark: empty or one instance
    warmed,        \* the CPU warm-up busy wait was performed
    ac,            \* run_unsafe: position in the add_column values
    pi,            \* position in the vector a printer loop walks
    fi,            \* run_all_filters: position in the filters
    todo,          \* ids the running selection loop still has to visit
    made,          \* ids whose factory made an instance so far, in order
    benchmark,     \* the instance run_benchmark_configurations works on
    ci,            \* run_benchmark_configurations: the loop variable i
    runs,          \* run_benchmark: runs
    run,           \* run_benchmark: run
    results,       \* run_benchmark: results
    rejects,       \* measurement cycles rejected in this run_benchmark call
    trace,         \* calls made by the current run_benchmark call, in order
    log,           \* set_options / start / end calls on the printers, in order
    sel,           \* counts of the current run_benchmark_configurations call
    executed,      \* ids of the benchmarks whose init was called
    reported,      \* ids of the benchmarks whose table reached the dispatch
    error,         \* what ended the process abnormally
    thrown         \* the callback whose exception ended the process

vars ==
    <<pc, id, id0, ids, threads, m_benchmarks, m_testcases, m_options, m_columns, m_enabled,
      m_current_benchmark, warmed, ac, pi, fi, todo, made, benchmark, ci,
      runs, run, results, rejects, trace, log, sel, executed, reported, error,
      thrown>>

counter_vars  == <<id, id0, ids, threads>>
registry_vars == <<counter_vars, m_benchmarks, m_testcases>>
startup_vars  == <<m_options, m_columns, m_enabled, warmed, ac>>
select_vars   == <<fi, todo>>
bench_vars    == <<made, benchmark, ci, sel>>
run_vars      == <<runs, run, results, rejects, trace>>
history_vars  == <<executed, reported>>
error_vars    == <<error, thrown>>

\* no benchmark instance
NoBenchmark ==
    [inst |-> 0, id |-> 0, testcase |-> <<>>, name |-> <<>>,
     configs |-> 0, current |-> <<>>, get_options |-> 0, set_calls |-> <<>>,
     configurations |-> <<>>]

NoCounts == [calls |-> 0, skipped |-> 0, tables |-> 0]

Threads == 1..NumThreads

\* A uint32_t is held as two 16 bit halves <<high, low>>, each an integer
\* below HalfBase, so that the arithmetic at the maximum is exact.
HalfBase == 65536

Uint32(n) == <<n \div HalfBase, n % HalfBase>>

\* the number a uint32_t stands for, while it is below 2^31
Number(u) == u[1] * HalfBase + u[2]

Less(u, v) == u[1] < v[1] \/ (u[1] = v[1] /\ u[2] < v[2])

\* ++ on a uint32_t: unsigned arithmetic wraps around to 0
Increment(u) ==
    IF u[2] + 1 < HalfBase THEN <<u[1], u[2] + 1>>
    ELSE IF u[1] + 1 < HalfBase THEN <<u[1] + 1, 0>>
    ELSE <<0, 0>>

\* std::numeric_limits<uint32_t>::max()
UINT32_MAX == <<HalfBase - 1, HalfBase - 1>>

\* the state after construction, with the static counter at a given value
Started(counter) ==
    /\ pc = "static_init"
    /\ id = counter
    /\ id0 = counter
    /\ ids = <<>>
    /\ threads = [t \in Threads |-> [at |-> "idle", loaded |-> Uint32(0),
                                      calls |-> 0]]
    /\ m_benchmarks = <<>>
    /\ m_testcases = <<>>
    /\ m_options = NoOptions
    /\ m_columns = <<>>
    /\ m_enabled = [p \in Printers |-> DefaultEnabled(p)]
    /\ m_current_benchmark = <<>>
    /\ warmed = FALSE
    /\ ac = 1
    /\ pi = 1
    /\ fi = 1
    /\ todo = <<>>
    /\ made = <<>>
    /\ benchmark = NoBenchmark
    /\ ci = 0
    /\ runs = 0
    /\ run = 0
    /\ results = EmptyTable
    /\ rejects = 0
    /\ trace = <<>>
    /\ log = <<>>
    /\ sel = NoCounts
    /\ executed = {}
    /\ reported = {}
    /\ error = "none"
    /\ thrown = <<>>

\* static uint32_t id = 1
Init == Started(Uint32(1))

\* the locals of run_benchmark before it is entered
NoRun ==
    /\ runs' = 0
    /\ run' = 0
    /\ results' = EmptyTable
    /\ rejects' = 0
    /\ trace' = <<>>

\* an exception propagates to runner::run, which prints it and exits with
\* EXIT_FAILURE: the stack is unwound and the locals of every frame are gone
Throw(exception, callback) ==
    /\ pc' = "failed"
    /\ error' = exception
    /\ thrown' = callback
    /\ pi' = 1
    /\ fi' = 1
    /\ todo' = <<>>
    /\ benchmark' = NoBenchmark
    /\ ci' = 0
    /\ sel' = NoCounts
    /\ NoRun
    /\ UNCHANGED <<registry_vars, startup_vars, m_current_benchmark, made>>

\* an assertion fails: the process aborts where it stands
Abort(assertion) ==
    /\ pc' = "aborted"
    /\ error' = assertion
    /\ UNCHANGED <<registry_vars, startup_vars, m_current_benchmark, pi,
                   select_vars, bench_vars, run_vars, log, history_vars, thrown>>

(***************************************************************************)
(* Registration, during static initialisation.                             *)
(***************************************************************************)
\* register_id, had it returned the counter without storing the increment
register_id_keeps_counter(counter) == counter

\* runner::register_id: ++id on a uint32_t; the id it returns is the value
\* the counter holds afterwards
register_id(counter) == Increment(counter)

\* m[key] = value of a std::map
MapPut(m, key, value) ==
    [k \in DOMAIN m \cup {key} |-> IF k = key THEN value ELSE m[k]]

\* a benchmark registers itself: register_id, then add_benchmark
add_benchmark(testcase_name, benchmark_name) ==
    /\ pc = "static_init"
    /\ Cardinality(DOMAIN m_benchmarks) < MaxBenchmarks
    /\ LET new == register_id(id)
           old == IF testcase_name \in DOMAIN m_testcases
                  THEN m_testcases[testcase_name] ELSE <<>>
       IN  /\ id' = new
           /\ ids' = Append(ids, new)
           /\ UNCHANGED <<id0, threads>>
           /\ m_benchmarks' = MapPut(m_benchmarks, Number(new),
                  [testcase |-> testcase_name, name |-> benchmark_name])
           /\ m_testcases' = MapPut(m_testcases, testcase_name,
                  MapPut(old, benchmark_name, Number(new)))
    /\ UNCHANGED <<pc, startup_vars, m_current_benchmark, pi, select_vars,
                   bench_vars, run_vars, log, history_vars, error_vars>>

\* one register_id call of a single caller: the assertion on the counter,
\* which a build without assertions leaves out, then ++id
call_register_id ==
    /\ pc = "static_init"
    /\ Len(ids) < MaxCalls
    /\ \/ ~Less(id, UINT32_MAX) /\ Abort("id < std::numeric_limits<uint32_t>::max()")
       \/ /\ id' = register_id(id)
          /\ ids' = Append(ids, register_id(id))
          /\ UNCHANGED <<pc, id0, threads, m_benchmarks, m_testcases,
                         startup_vars, m_current_benchmark, pi, select_vars,
                         bench_vars, run_vars, log, history_vars, error_vars>>

\* ++id is not atomic.  A thread in register_id first loads the counter
load(t) ==
    /\ pc = "static_init"
    /\ threads[t].at = "idle"
    /\ threads[t].calls < MaxCalls
    /\ threads' = [threads EXCEPT ![t] = [at |-> "loaded", loaded |-> id,
                                          calls |-> @.calls]]
    /\ UNCHANGED <<pc, id, id0, ids, m_benchmarks, m_testcases, startup_vars,
                   m_current_benchmark, pi, select_vars, bench_vars, run_vars,
                   log, history_vars, error_vars>>

\* and then stores the incremented value, which is the id it returns
store(t) ==
    /\ pc = "static_init"
    /\ threads[t].at = "loaded"
    /\ id' = register_id(threads[t].loaded)
    /\ ids' = Append(ids, register_id(threads[t].loaded))
    /\ threads' = [threads EXCEPT ![t] = [at |-> "returned",
                                          loaded |-> register_id(@.loaded),
                                          calls |-> @.calls]]
    /\ UNCHANGED <<pc, id0, m_benchmarks, m_testcases, startup_vars,
                   m_current_benchmark, pi, select_vars, bench_vars, run_vars,
                   log, history_vars, error_vars>>

\* the thread hands the id it got to runner::add_benchmark
insert(t, testcase_name, benchmark_name) ==
    /\ pc = "static_init"
    /\ threads[t].at = "returned"
    /\ LET new == Number(threads[t].loaded)
           old == IF testcase_name \in DOMAIN m_testcases
                  THEN m_testcases[testcase_name] ELSE <<>>
       IN  /\ m_benchmarks' = MapPut(m_benchmarks, new,
                  [testcase |-> testcase_name, name |-> benchmark_name])
           /\ m_testcases' = MapPut(m_testcases, testcase_name,
                  MapPut(old, benchmark_name, new))
    /\ threads' = [threads EXCEPT ![t] = [at |-> "idle", loaded |-> Uint32(0),
                                          calls |-> @.calls + 1]]
    /\ UNCHANGED <<pc, id, id0, ids, startup_vars, m_current_benchmark, pi,
                   select_vars, bench_vars, run_vars, log, history_vars,
                   error_vars>>

(***************************************************************************)
(* runner::run_unsafe up to the selection of the benchmarks.               *)
(***************************************************************************)
\* the printers enabled_printers() returns, in registration order
RECURSIVE EnabledFrom(_, _)
EnabledFrom(enabled, p) ==
    IF p > NumPrinters THEN <<>>
    ELSE (IF enabled[p] THEN <<p>> ELSE <<>>) \o EnabledFrom(enabled, p + 1)

\* enabled_printers, had it returned the printers last first
enabled_printers_reversed(enabled) ==
    LET RECURSIVE Down(_)
        Down(p) == IF p < 1 THEN <<>>
                   ELSE (IF enabled[p] THEN <<p>> ELSE <<>>) \o Down(p - 1)
    IN  Down(NumPrinters)

enabled_printers(enabled) == EnabledFrom(enabled, 1)

\* where a loop over enabled_printers() starts: in the loop, or after it
PrinterLoop(enabled, loop, after) ==
    IF enabled_printers(enabled) = <<>> THEN after ELSE loop

\* the command line is parsed
run_unsafe ==
    /\ pc = "static_init"
    /\ \E o \in ParseResults : m_options' = o
    /\ pc' = "parsed"
    /\ UNCHANGED <<registry_vars, m_columns, m_enabled, warmed, ac,
                   m_current_benchmark, pi, select_vars, bench_vars, run_vars,
                   log, history_vars, error_vars>>

EarlyReturn == m_options.help \/ m_options.print_tests \/ m_options.print_benchmarks

Return ==
    /\ pc' = "returned"
    /\ UNCHANGED <<registry_vars, startup_vars, m_current_benchmark, pi,
                   select_vars, bench_vars, run_vars, log, history_vars, error_vars>>

help ==
    /\ pc = "parsed"
    /\ m_options.help
    /\ Return

print_tests ==
    /\ pc = "parsed"
    /\ ~m_options.help
    /\ m_options.print_tests
    /\ Return

print_benchmarks ==
    /\ pc = "parsed"
    /\ ~m_options.help
    /\ ~m_options.print_tests
    /\ m_options.print_benchmarks
    /\ Return

\* what runner::parse_add_column does with one option value:
\* an exception, or the column to store
ParseAddColumn(option) ==
    LET first  == GetLine(IStringStream(option), "=")
        second == GetLine(first.ss, NewLine)
    IN  IF StreamFailed(first.ss) \/ StreamFailed(second.ss)
        THEN [error |-> "MalformedAddColumn", name |-> <<>>, value |-> <<>>]
        ELSE [error |-> "none", name |-> first.line, value |-> second.line]

\* one turn of the add_column loop of run_unsafe.  A name that is already
\* present fails the assertion; a build without assertions overwrites.
parse_add_column ==
    /\ pc = "parsed"
    /\ ~EarlyReturn
    /\ ac <= Len(m_options.add_column)
    /\ LET p == ParseAddColumn(m_options.add_column[ac])
       IN  IF p.error # "none"
           THEN Throw(p.error, <<>>) /\ UNCHANGED <<log, history_vars>>
           ELSE \/ /\ p.name \in DOMAIN m_columns
                   /\ Abort("m_columns.find(column_name) == m_columns.end()")
                \/ /\ m_columns' = MapPut(m_columns, p.name, p.value)
                   /\ ac' = ac + 1
                   /\ UNCHANGED <<registry_vars, m_options, m_enabled, warmed,
                                  m_current_benchmark, pi, select_vars,
                                  bench_vars, run_vars, log, history_vars, pc,
                                  error_vars>>

\* the CPU warm-up wait, which a dry run leaves out
cpu_warmup ==
    /\ pc = "parsed"
    /\ ~EarlyReturn
    /\ ac > Len(m_options.add_column)
    /\ warmed' = ~m_options.dry_run
    /\ pc' = "set_options"
    /\ pi' = 1
    /\ UNCHANGED <<registry_vars, m_options, m_columns, m_enabled, ac,
                   m_current_benchmark, select_vars, bench_vars, run_vars,
                   log, history_vars, error_vars>>

\* set_options, had it left m_enabled at its default
set_options_keeps_default ==
    /\ pc = "set_options"
    /\ log' = Append(log, <<"set_options", pi>>)
    /\ IF pi < NumPrinters
       THEN pi' = pi + 1 /\ pc' = pc
       ELSE pi' = 1 /\ pc' = PrinterLoop(m_enabled, "start", "select")
    /\ UNCHANGED <<registry_vars, startup_vars, m_current_benchmark,
                   select_vars, bench_vars, run_vars, history_vars, error_vars>>

\* printer::set_options on the next registered printer
set_options ==
    /\ pc = "set_options"
    /\ m_enabled' = [m_enabled EXCEPT ![pi] = m_options.use[pi]]
    /\ log' = Append(log, <<"set_options", pi>>)
    /\ IF pi < NumPrinters
       THEN pi' = pi + 1 /\ pc' = pc
       ELSE pi' = 1 /\ pc' = PrinterLoop(m_enabled', "start", "select")
    /\ UNCHANGED <<registry_vars, m_options, m_columns, warmed, ac,
                   m_current_benchmark, select_vars, bench_vars, run_vars,
                   history_vars, error_vars>>

\* the next turn of a loop over enabled_printers(), and where it leaves to
NotifyPrinter(loop, after) ==
    /\ pc = loop
    /\ LET printers == enabled_printers(m_enabled)
       IN  /\ pi <= Len(printers)
           /\ IF pi < Len(printers)
              THEN pi' = pi + 1 /\ pc' = pc
              ELSE pi' = 1 /\ pc' = after

\* printer::start on the next enabled printer
start ==
    /\ NotifyPrinter("start", "select")
    /\ log' = Append(log, <<"start", enabled_printers(m_enabled)[pi]>>)
    /\ UNCHANGED <<registry_vars, startup_vars, m_current_benchmark,
                   select_vars, bench_vars, run_vars, history_vars, error_vars>>

(***************************************************************************)
(* Selection: run_all, run_all_filters, run_single_filter.                 *)
(***************************************************************************)
Star == <<"*">>

\* AllIds, had run_all walked the ids that the test-case index still holds
AllIds_of_index(benchmarks) ==
    SortedIds({i \in DOMAIN benchmarks :
                 \A j \in DOMAIN benchmarks : benchmarks[j] = benchmarks[i] => j <= i})

\* the ids run_all visits, in the order of m_benchmarks
AllIds(benchmarks) == SortedIds(DOMAIN benchmarks)

\* TestcaseIds, had the loop left out the last benchmark of the test-case
TestcaseIds_without_last(testcases, tc) ==
    LET names == SortedKeys(DOMAIN testcases[tc])
    IN  [i \in 1..(Len(names) - 1) |-> testcases[tc][names[i]]]

\* TestcaseIds, had the loop gone by ascending id
TestcaseIds_by_id(testcases, tc) ==
    SortedIds({testcases[tc][name] : name \in DOMAIN testcases[tc]})

\* the ids of testcase tc, in the order of its benchmark map
TestcaseIds(testcases, tc) ==
    LET names == SortedKeys(DOMAIN testcases[tc])
    IN  [i \in 1..Len(names) |-> testcases[tc][names[i]]]

\* NamedIds, had the walk stopped at the first test-case with the benchmark
NamedIds_first_match(testcases, tcs, bm) ==
    LET with == SelectSeq(tcs, LAMBDA tc : bm \in DOMAIN testcases[tc])
    IN  IF with = <<>> THEN <<>> ELSE <<testcases[Head(with)][bm]>>

\* the ids of the benchmarks called bm, walking the testcases in order
RECURSIVE NamedIds(_, _, _)
NamedIds(testcases, tcs, bm) ==
    IF tcs = <<>> THEN <<>>
    ELSE (IF bm \in DOMAIN testcases[Head(tcs)]
          THEN <<testcases[Head(tcs)][bm]>> ELSE <<>>)
         \o NamedIds(testcases, Tail(tcs), bm)

\* Subscript, had the access assigned an empty value to the entry
Subscript_assigns(m, key) == MapPut(m, key, <<>>)

\* m[key] of a std::map as an lvalue that is only read: the map afterwards,
\* which has gained a default entry if the key was absent
Subscript(m, key) == IF key \in DOMAIN m THEN m ELSE MapPut(m, key, <<>>)

\* what runner::run_single_filter resolves a filter to: an exception, or
\* the ids whose benchmarks it runs, in order; and the test-case map
\* afterwards
ResolveFilter(filter, benchmarks, testcases) ==
    LET first  == GetLine(IStringStream(filter), ".")
        second == GetLine(first.ss, NewLine)
        testcase_name  == first.line
        benchmark_name == second.line
        Error(e) == [error |-> e, ids |-> <<>>, testcases |-> testcases]
        Ids(s)   == [error |-> "none", ids |-> s, testcases |-> testcases]
        Looked(s) == [error |-> "none", ids |-> s,
                      testcases |-> Subscript(testcases, testcase_name)]
    IN  IF StreamFailed(first.ss) \/ StreamFailed(second.ss)
        THEN Error("MalformedFilter")
        ELSE IF testcase_name = Star /\ benchmark_name = Star
        THEN Ids(AllIds(benchmarks))
        ELSE IF testcase_name = Star
        THEN LET found == NamedIds(testcases, SortedKeys(DOMAIN testcases),
                                   benchmark_name)
             IN  IF found = <<>> THEN Error("BenchmarkNotFound") ELSE Ids(found)
        ELSE IF benchmark_name = Star
        THEN IF testcase_name \notin DOMAIN testcases
             THEN Error("TestcaseNotFound")
             ELSE Looked(TestcaseIds(testcases, testcase_name))
        ELSE IF testcase_name \notin DOMAIN testcases
             THEN Error("TestcaseNotFound")
             ELSE IF benchmark_name \notin DOMAIN testcases[testcase_name]
                  THEN Error("BenchmarkNotFound")
                  ELSE Looked(<<testcases[testcase_name][benchmark_name]>>)

FilterErrors == {"MalformedFilter", "TestcaseNotFound", "BenchmarkNotFound"}

\* run_unsafe without --gauge_filter: run_all
run_all ==
    /\ pc = "select"
    /\ m_options.gauge_filter = <<>>
    /\ todo' = AllIds(m_benchmarks)
    /\ pc' = "iterate"
    /\ UNCHANGED <<registry_vars, startup_vars, m_current_benchmark, pi, fi,
                   bench_vars, run_vars, log, history_vars, error_vars>>

\* run_unsafe with --gauge_filter: run_all_filters
run_all_filters ==
    /\ pc = "select"
    /\ m_options.gauge_filter # <<>>
    /\ fi' = 1
    /\ pc' = "filter"
    /\ UNCHANGED <<registry_vars, startup_vars, m_current_benchmark, pi, todo,
                   bench_vars, run_vars, log, history_vars, error_vars>>

\* run_single_filter, had it left out the benchmarks an earlier filter ran
run_single_filter_once_each ==
    /\ pc = "filter"
    /\ LET r == ResolveFilter(m_options.gauge_filter[fi], m_benchmarks, m_testcases)
       IN  IF r.error # "none"
           THEN Throw(r.error, <<>>) /\ UNCHANGED <<log, history_vars>>
           ELSE /\ pc' = "iterate"
                /\ todo' = SelectSeq(r.ids, LAMBDA i : i \notin Range(made))
                /\ m_testcases' = r.testcases
                /\ UNCHANGED <<counter_vars, m_benchmarks, startup_vars,
                               m_current_benchmark, pi, fi, bench_vars, run_vars,
                               log, history_vars, error_vars>>

\* run_single_filter on the next filter: it throws, or starts its loop
run_single_filter ==
    /\ pc = "filter"
    /\ LET r == ResolveFilter(m_options.gauge_filter[fi], m_benchmarks, m_testcases)
       IN  IF r.error # "none"
           THEN Throw(r.error, <<>>) /\ UNCHANGED <<log, history_vars>>
           ELSE /\ pc' = "iterate"
                /\ todo' = r.ids
                /\ m_testcases' = r.testcases
                /\ UNCHANGED <<counter_vars, m_benchmarks, startup_vars,
                               m_current_benchmark, pi, fi, bench_vars, run_vars,
                               log, history_vars, error_vars>>

\* the selection loop is over: the next filter, or the end of the run
selection_returns ==
    /\ pc = "iterate"
    /\ todo = <<>>
    /\ IF fi < Len(m_options.gauge_filter)
       THEN fi' = fi + 1 /\ pc' = "filter"
       ELSE fi' = fi /\ pc' = PrinterLoop(m_enabled, "end", "returned")
    /\ UNCHANGED <<registry_vars, startup_vars, m_current_benchmark, pi, todo,
                   bench_vars, run_vars, log, history_vars, error_vars>>

\* printer::end on the next enabled printer
end ==
    /\ NotifyPrinter("end", "returned")
    /\ log' = Append(log, <<"end", enabled_printers(m_enabled)[pi]>>)
    /\ UNCHANGED <<registry_vars, startup_vars, m_current_benchmark,
                   select_vars, bench_vars, run_vars, history_vars, error_vars>>

(***************************************************************************)
(* runner::run_benchmark_configurations.                                   *)
(***************************************************************************)
\* the names of the values of a configuration set
SYMBOLS     == <<"s", "y", "m", "b", "o", "l", "s">>
SYMBOL_SIZE == <<"s", "y", "m", "b", "o", "l", "_", "s", "i", "z", "e">>
TYPE        == <<"t", "y", "p", "e">>

\* values of the options --symbols, --symbol_size and --type
SymbolsInputs    == { <<16>>, <<16, 32>> }
SymbolSizeInputs == { <<1600>> }
TypeInputs       == { <<"encoder">>, <<"encoder", "decoder">> }

\* option_benchmark::get_options: one add_configuration for every triple,
\* the symbols in the outer loop (index i), the symbol sizes in the middle
\* one (j), the types in the inner one (u)
get_options(symbols, symbol_size, types) ==
    LET sizes == Len(symbol_size)
        kinds == Len(types)
    IN  [k \in 1..(Len(symbols) * sizes * kinds) |->
            LET i == (k - 1) \div (sizes * kinds)
                j == ((k - 1) \div kinds) % sizes
                u == (k - 1) % kinds
            IN  (SYMBOLS :> symbols[i + 1]) @@
                (SYMBOL_SIZE :> symbol_size[j + 1]) @@
                (TYPE :> types[u + 1])]

\* the configurations get_options leaves in a benchmark: none for a plain
\* benchmark, the cross product of the options for an option_benchmark
ConfigurationInputs ==
    { <<>> } \cup
    { added \in { get_options(symbols, symbol_size, types) :
                     symbols \in SymbolsInputs, symbol_size \in SymbolSizeInputs,
                     types \in TypeInputs } : Len(added) <= MaxConfigs }

\* the factory makes the instance; get_options registers its configurations
run_benchmark_configurations ==
    /\ pc = "iterate"
    /\ todo # <<>>
    /\ \E added \in ConfigurationInputs :
          benchmark' = [inst |-> Len(made) + 1, id |-> Head(todo),
                        testcase |-> m_benchmarks[Head(todo)].testcase,
                        name |-> m_benchmarks[Head(todo)].name,
                        configs |-> Len(added), current |-> <<>>,
                        get_options |-> 1, set_calls |-> <<>>,
                        configurations |-> added]
    /\ made' = Append(made, Head(todo))
    /\ todo' = Tail(todo)
    /\ ci' = 0
    /\ sel' = NoCounts
    /\ NoRun
    /\ pc' = "configurations"
    /\ UNCHANGED <<registry_vars, startup_vars, m_current_benchmark, pi, fi,
                   log, history_vars, error_vars>>

\* benchmark->has_configurations()
has_configurations(b) == b.configs > 0

\* benchmark->get_current_configuration()
get_current_configuration(b) == b.configurations[b.current[1] + 1]

\* run_benchmark is entered
EnterRunBenchmark ==
    /\ pc' = "run_benchmark"
    /\ sel' = [sel EXCEPT !.calls = @ + 1]
    /\ NoRun

\* set_current_configuration, had the loop set the first configuration in
\* every turn
set_current_configuration_first ==
    /\ pc = "configurations"
    /\ has_configurations(benchmark)
    /\ ci < benchmark.configs
    /\ benchmark' = [benchmark EXCEPT !.current = <<0>>,
                                      !.set_calls = Append(@, 0)]
    /\ EnterRunBenchmark
    /\ UNCHANGED <<registry_vars, startup_vars, m_current_benchmark, pi,
                   select_vars, made, ci, log, history_vars, error_vars>>

\* one turn of the loop over the configurations
set_current_configuration ==
    /\ pc = "configurations"
    /\ has_configurations(benchmark)
    /\ ci < benchmark.configs
    /\ benchmark' = [benchmark EXCEPT !.current = <<ci>>,
                                      !.set_calls = Append(@, ci)]
    /\ EnterRunBenchmark
    /\ UNCHANGED <<registry_vars, startup_vars, m_current_benchmark, pi,
                   select_vars, made, ci, log, history_vars, error_vars>>

\* a benchmark without configurations runs once
run_unconfigured ==
    /\ pc = "configurations"
    /\ ~has_configurations(benchmark)
    /\ ci = 0
    /\ EnterRunBenchmark
    /\ UNCHANGED <<registry_vars, startup_vars, m_current_benchmark, pi,
                   select_vars, made, benchmark, ci, log, history_vars, error_vars>>

\* every run_benchmark call of run_benchmark_configurations has returned
ConfigurationsDone ==
    /\ pc = "configurations"
    /\ IF has_configurations(benchmark) THEN ci = benchmark.configs ELSE ci = 1

configurations_return ==
    /\ ConfigurationsDone
    /\ pc' = "iterate"
    /\ benchmark' = NoBenchmark
    /\ ci' = 0
    /\ sel' = NoCounts
    /\ NoRun
    /\ UNCHANGED <<registry_vars, startup_vars, m_current_benchmark, pi,
                   select_vars, made, log, history_vars, error_vars>>

(***************************************************************************)
(* runner::run_benchmark.                                                  *)
(***************************************************************************)
Call(name) == <<name, 0>>

\* benchmark->unit_text()
UnitText == <<"s">>

\* the constant columns of m_columns, in the iteration order of the map
RECURSIVE AddCustomColumns(_, _, _)
AddCustomColumns(t, names, columns) ==
    IF names = <<>> THEN t
    ELSE AddCustomColumns(add_const_column(t, Head(names), columns[Head(names)]),
                          Tail(names), columns)

\* benchmark->prepare_table(results): the benchmark declares its columns
prepare_table(t) == add_column(t, TIME)

\* BuildTable, had the custom columns been added after the fixed constants
BuildTable_custom_last(columns, b) ==
    LET unit     == add_const_column(EmptyTable, UNIT, UnitText)
        bench    == add_const_column(unit, BENCHMARK, b.name)
        testcase == add_const_column(bench, TESTCASE, b.testcase)
        custom   == AddCustomColumns(testcase, SortedKeys(DOMAIN columns), columns)
    IN  add_column(add_column(custom, ITERATIONS), RUN_NUMBER)

\* the fresh table of run_benchmark, before prepare_table
BuildTable(columns, b) ==
    LET custom   == AddCustomColumns(EmptyTable, SortedKeys(DOMAIN columns), columns)
        unit     == add_const_column(custom, UNIT, UnitText)
        bench    == add_const_column(unit, BENCHMARK, b.name)
        testcase == add_const_column(bench, TESTCASE, b.testcase)
    IN  add_column(add_column(testcase, ITERATIONS), RUN_NUMBER)

\* benchmark->iteration_count() and the measurement store_run stores
IterationCount == "iteration_count"
Measurement == "measurement"

\* benchmark->store_run(results)
store_run(t) == set_value(t, TIME, Measurement)

\* AcceptedRun, had it numbered the runs from one
AcceptedRun_from_one(t, r) ==
    store_run(set_value(set_value(add_row(t), ITERATIONS, IterationCount),
                        RUN_NUMBER, r + 1))

\* the body of the run loop for an accepted measurement
AcceptedRun(t, r) ==
    store_run(set_value(set_value(add_row(t), ITERATIONS, IterationCount),
                        RUN_NUMBER, r))

\* the result_filter loop, had it stopped at the first name that is no column
RECURSIVE DropColumns_until_absent(_, _)
DropColumns_until_absent(t, names) ==
    IF names = <<>> THEN t
    ELSE IF ~has_column(t, Head(names)) THEN t
         ELSE DropColumns_until_absent(drop_column(t, Head(names)), Tail(names))

\* the result_filter loop
RECURSIVE DropColumns(_, _)
DropColumns(t, names) ==
    IF names = <<>> THEN t
    ELSE IF ~has_column(t, Head(names)) THEN DropColumns(t, Tail(names))
         ELSE DropColumns(drop_column(t, Head(names)), Tail(names))

\* ReturnFromRunBenchmark, had the loop stepped over a configuration
ReturnFromRunBenchmark_step_two ==
    /\ pc' = "configurations"
    /\ ci' = ci + 2

\* run_benchmark returns to the loop of run_benchmark_configurations
ReturnFromRunBenchmark ==
    /\ pc' = "configurations"
    /\ ci' = ci + 1

\* --dry_run: run_benchmark returns at once
dry_run ==
    /\ pc = "run_benchmark"
    /\ m_options.dry_run
    /\ ReturnFromRunBenchmark
    /\ UNCHANGED <<registry_vars, startup_vars, m_current_benchmark, pi,
                   select_vars, made, benchmark, sel, run_vars, log,
                   history_vars, error_vars>>

\* acquire, had run_benchmark not returned early in a dry run
acquire_in_dry_run ==
    /\ pc = "run_benchmark"
    /\ m_current_benchmark' = <<benchmark.inst>>
    /\ pc' = "skip"
    /\ UNCHANGED <<registry_vars, startup_vars, pi, select_vars, bench_vars,
                   run_vars, log, history_vars, error_vars>>

\* assert(!m_current_benchmark); m_current_benchmark = benchmark
acquire ==
    /\ pc = "run_benchmark"
    /\ ~m_options.dry_run
    /\ \/ m_current_benchmark # <<>> /\ Abort("!m_current_benchmark")
       \/ /\ m_current_benchmark' = <<benchmark.inst>>
          /\ pc' = "skip"
          /\ UNCHANGED <<registry_vars, startup_vars, pi, select_vars,
                         bench_vars, run_vars, log, history_vars, error_vars>>

\* skip, had a skipped benchmark returned without releasing the slot
skip_holds_slot ==
    /\ pc = "skip"
    /\ trace' = Append(trace, Call("skip"))
    /\ \E skipped \in BOOLEAN :
          IF skipped
          THEN /\ sel' = [sel EXCEPT !.skipped = @ + 1]
               /\ ReturnFromRunBenchmark
          ELSE /\ pc' = "init"
               /\ UNCHANGED <<sel, ci>>
    /\ UNCHANGED <<registry_vars, startup_vars, m_current_benchmark, pi,
                   select_vars, made, benchmark, runs, run, results, rejects,
                   log, history_vars, error_vars>>

\* benchmark->skip(): a skipped benchmark releases the slot and returns
skip ==
    /\ pc = "skip"
    /\ trace' = Append(trace, Call("skip"))
    /\ \E skipped \in BOOLEAN :
          IF skipped
          THEN /\ m_current_benchmark' = <<>>
               /\ sel' = [sel EXCEPT !.skipped = @ + 1]
               /\ ReturnFromRunBenchmark
          ELSE /\ pc' = "init"
               /\ UNCHANGED <<m_current_benchmark, sel, ci>>
    /\ UNCHANGED <<registry_vars, startup_vars, pi, select_vars, made,
                   benchmark, runs, run, results, rejects, log, history_vars,
                   error_vars>>

\* benchmark->init()
init ==
    /\ pc = "init"
    /\ trace' = Append(trace, Call("init"))
    /\ executed' = executed \cup {benchmark.id}
    /\ pc' = "warmup_iteration"
    /\ UNCHANGED <<registry_vars, startup_vars, m_current_benchmark, pi,
                   select_vars, bench_vars, runs, run, results, rejects, log,
                   reported, error_vars>>

Cycle == <<Call("setup"), Call("test_body"), Call("tear_down")>>

\* benchmark->needs_warmup_iteration(): one cycle that is not measured
warmup_iteration ==
    /\ pc = "warmup_iteration"
    /\ \E needs_warmup_iteration \in BOOLEAN :
          trace' = IF needs_warmup_iteration THEN trace \o Cycle ELSE trace
    /\ pc' = "table"
    /\ UNCHANGED <<registry_vars, startup_vars, m_current_benchmark, pi,
                   select_vars, bench_vars, runs, run, results, rejects, log,
                   history_vars, error_vars>>

\* the run count, the fresh table and benchmark->prepare_table(results)
build_table ==
    /\ pc = "table"
    /\ IF m_options.runs # NotGiven
       THEN /\ runs' = m_options.runs[1]
            /\ trace' = Append(trace, Call("prepare_table"))
       ELSE \E declared \in 1..MaxRuns :
               /\ runs' = declared
               /\ trace' = trace \o <<<<"runs", declared>>, Call("prepare_table")>>
    /\ results' = prepare_table(BuildTable(m_columns, benchmark))
    /\ pi' = 1
    /\ pc' = PrinterLoop(m_enabled, "start_benchmark", "loop")
    /\ UNCHANGED <<registry_vars, startup_vars, m_current_benchmark,
                   select_vars, bench_vars, run, rejects, log, history_vars,
                   error_vars>>

\* printer::start_benchmark on the next enabled printer
start_benchmark ==
    /\ NotifyPrinter("start_benchmark", "loop")
    /\ trace' = Append(trace, <<"start_benchmark", enabled_printers(m_enabled)[pi]>>)
    /\ UNCHANGED <<registry_vars, startup_vars, m_current_benchmark,
                   select_vars, bench_vars, runs, run, results, rejects, log,
                   history_vars, error_vars>>

\* a rejected cycle after MaxRejects of them: the loop goes on as before, and
\* neither the call sequence nor the count of rejected cycles records it
rejected_again ==
    /\ pc = "loop"
    /\ run < runs
    /\ rejects = MaxRejects
    /\ pc' = "rejected"
    /\ UNCHANGED <<registry_vars, startup_vars, m_current_benchmark, pi,
                   select_vars, bench_vars, run_vars, log, history_vars, error_vars>>

\* the loop test after such a cycle
next_cycle ==
    /\ pc = "rejected"
    /\ pc' = "loop"
    /\ UNCHANGED <<registry_vars, startup_vars, m_current_benchmark, pi,
                   select_vars, bench_vars, run_vars, log, history_vars, error_vars>>

\* accepted_cycle, had the loop neither stored nor counted an accepted
\* measurement
accepted_cycle_not_counted ==
    /\ pc = "loop"
    /\ run < runs
    /\ pc' = "rejected"
    /\ UNCHANGED <<registry_vars, startup_vars, m_current_benchmark, pi,
                   select_vars, bench_vars, run_vars, log, history_vars, error_vars>>

\* a turn of the run loop in which accept_measurement() answers true
accepted_cycle ==
    /\ pc = "loop"
    /\ run < runs
    /\ results' = AcceptedRun(results, run)
    /\ run' = run + 1
    /\ trace' = trace \o Cycle \o <<Call("accept_measurement"), Call("store_run")>>
    /\ UNCHANGED <<registry_vars, startup_vars, m_current_benchmark, pi,
                   select_vars, bench_vars, runs, rejects, log, history_vars,
                   pc, error_vars>>

\* a turn of the run loop in which accept_measurement() answers false
rejected_cycle ==
    /\ pc = "loop"
    /\ run < runs
    /\ rejects < MaxRejects
    /\ rejects' = rejects + 1
    /\ trace' = trace \o Cycle \o <<Call("accept_measurement")>>
    /\ UNCHANGED <<registry_vars, startup_vars, m_current_benchmark, pi,
                   select_vars, bench_vars, runs, run, results, log,
                   history_vars, pc, error_vars>>

\* one turn of the run loop: a cycle, accepted or rejected
measure == accepted_cycle \/ rejected_cycle

\* after the run loop: the columns of --result_filter are dropped.  A run
\* count of zero fails assert(runs > 0); a build without assertions goes on.
result_filter ==
    /\ pc = "loop"
    /\ run >= runs
    /\ \/ runs = 0 /\ Abort("runs > 0")
       \/ /\ results' = DropColumns(results, m_options.result_filter)
          /\ pi' = 1
          /\ pc' = PrinterLoop(m_enabled, "end_benchmark", "release")
          /\ UNCHANGED <<registry_vars, startup_vars, m_current_benchmark,
                         select_vars, bench_vars, runs, run, rejects, trace,
                         log, history_vars, error_vars>>

\* printer::end_benchmark on the next enabled printer
end_benchmark ==
    /\ NotifyPrinter("end_benchmark", "benchmark_result")
    /\ trace' = Append(trace, <<"end_benchmark", enabled_printers(m_enabled)[pi]>>)
    /\ UNCHANGED <<registry_vars, startup_vars, m_current_benchmark,
                   select_vars, bench_vars, runs, run, results, rejects, log,
                   history_vars, error_vars>>

\* the printers that are file printers: python, json and csv follow the
\* console printer in add_default_printers
FilePrinters == Printers \cap 2..4

\* the columns file_printer::benchmark_result adds, in the order of the map
RECURSIVE AddConfigurationColumns(_, _, _)
AddConfigurationColumns(t, names, c) ==
    IF names = <<>> THEN t
    ELSE AddConfigurationColumns(add_const_column(t, Head(names), c[Head(names)]),
                                 Tail(names), c)

\* file_printer::benchmark_result: the table inserted into m_tables is a
\* copy of the results with the values of the current configuration
file_printer_benchmark_result(info, t) ==
    IF has_configurations(info)
    THEN LET c == get_current_configuration(info)
         IN  AddConfigurationColumns(t, SortedKeys(DOMAIN c), c)
    ELSE t

\* what a printer does with a result: a file printer inserts its table
Inserted(printer, info, t) ==
    IF printer \in FilePrinters
    THEN << <<"m_tables.insert", printer, file_printer_benchmark_result(info, t)>> >>
    ELSE <<>>

\* printer::benchmark_result(*benchmark, results) on the next enabled printer
benchmark_result ==
    /\ NotifyPrinter("benchmark_result", "release")
    /\ trace' = Append(trace, <<"benchmark_result", enabled_printers(m_enabled)[pi],
                                results>>)
                \o Inserted(enabled_printers(m_enabled)[pi], benchmark, results)
    /\ reported' = reported \cup {benchmark.id}
    /\ UNCHANGED <<registry_vars, startup_vars, m_current_benchmark,
                   select_vars, bench_vars, runs, run, results, rejects, log,
                   executed, error_vars>>

\* release, had it left the benchmark in the slot
release_keeps_benchmark ==
    /\ pc = "release"
    /\ sel' = [sel EXCEPT !.tables = @ + 1]
    /\ ReturnFromRunBenchmark
    /\ UNCHANGED <<registry_vars, startup_vars, m_current_benchmark, pi,
                   select_vars, made, benchmark, run_vars, log, history_vars,
                   error_vars>>

\* m_current_benchmark = benchmark_ptr(), and run_benchmark returns
release ==
    /\ pc = "release"
    /\ m_current_benchmark' = <<>>
    /\ sel' = [sel EXCEPT !.tables = @ + 1]
    /\ ReturnFromRunBenchmark
    /\ UNCHANGED <<registry_vars, startup_vars, pi, select_vars, made,
                   benchmark, run_vars, log, history_vars, error_vars>>

(***************************************************************************)
(* A callback of a benchmark or of a printer throws.                       *)
(***************************************************************************)
\* the callbacks run_benchmark may call next
ThrowingCalls ==
    LET printer == enabled_printers(m_enabled)[pi]
    IN  CASE pc = "skip"             -> {Call("skip")}
          [] pc = "init"             -> {Call("init")}
          [] pc = "warmup_iteration" -> Range(Cycle)
          [] pc = "table"            -> {Call("prepare_table")}
          [] pc = "start_benchmark"  -> {<<"start_benchmark", printer>>}
          [] pc = "loop" /\ run < runs ->
                 Range(Cycle) \cup {Call("accept_measurement"), Call("store_run")}
          [] pc = "end_benchmark"    -> {<<"end_benchmark", printer>>}
          [] pc = "benchmark_result" -> {<<"benchmark_result", printer>>}
          [] OTHER                   -> {}

\* a callback made by run_benchmark throws
callback_throws ==
    /\ \E callback \in ThrowingCalls :
          /\ Throw("exception", callback)
          /\ executed' = IF callback[1] = "skip"
                         THEN executed ELSE executed \cup {benchmark.id}
    /\ UNCHANGED <<log, reported>>

\* set_options, start or end of a printer throws
printer_throws ==
    /\ \/ pc = "set_options" /\ Throw("exception", <<"set_options", pi>>)
       \/ /\ pc \in {"start", "end"}
          /\ Throw("exception", <<pc, enabled_printers(m_enabled)[pi]>>)
    /\ UNCHANGED <<log, history_vars>>

(***************************************************************************)
(* The specification.                                                      *)
(***************************************************************************)
Next ==
    \/ \E tc \in TestcaseNames, bm \in BenchmarkNames : add_benchmark(tc, bm)
    \/ run_unsafe
    \/ help
    \/ print_tests
    \/ print_benchmarks
    \/ parse_add_column
    \/ cpu_warmup
    \/ set_options
    \/ start
    \/ run_all
    \/ run_all_filters
    \/ run_single_filter
    \/ selection_returns
    \/ end
    \/ run_benchmark_configurations
    \/ set_current_configuration
    \/ run_unconfigured
    \/ configurations_return
    \/ dry_run
    \/ acquire
    \/ skip
    \/ init
    \/ warmup_iteration
    \/ build_table
    \/ start_benchmark
    \/ measure
    \/ result_filter
    \/ end_benchmark
    \/ benchmark_result
    \/ release
    \/ callback_throws
    \/ printer_throws

Spec == Init /\ [][Next]_vars

\* register_id called by one caller, from a counter value next to 1 or next
\* to the maximum
StartCounters ==
    {Uint32(n) : n \in 1..RegisterWindow} \cup
    {<<HalfBase - 1, HalfBase - 1 - n>> : n \in 0..RegisterWindow}

RegisterInit == \E counter \in StartCounters : Started(counter)

RegisterNext == call_register_id

RegisterSpec == RegisterInit /\ [][RegisterNext]_vars

\* register_id called by threads whose loads and stores interleave
ConcurrentNext ==
    \E t \in Threads :
        \/ load(t)
        \/ store(t)
        \/ \E testcase_name \in TestcaseNames, benchmark_name \in BenchmarkNames :
              insert(t, testcase_name, benchmark_name)

ConcurrentSpec == Init /\ [][ConcurrentNext]_vars

\* run_benchmark_configurations has made the one registered benchmark, for
\* a command line without filters and columns: set_options and start have
\* been delivered, run_all has chosen the benchmark and get_options has
\* returned
RunLoopInit ==
    \E o \in {p \in ParseResults : /\ ~p.help /\ ~p.print_tests /\ ~p.print_benchmarks
                                    /\ p.add_column = <<>> /\ p.gauge_filter = <<>>},
       added \in ConfigurationInputs :
        /\ pc = "configurations"
        /\ id = Uint32(2)
        /\ id0 = Uint32(1)
        /\ ids = <<Uint32(2)>>
        /\ threads = [t \in Threads |-> [at |-> "idle", loaded |-> Uint32(0),
                                          calls |-> 0]]
        /\ m_benchmarks = (2 :> [testcase |-> <<"a">>, name |-> <<"q">>])
        /\ m_testcases = (<<"a">> :> (<<"q">> :> 2))
        /\ m_options = o
        /\ m_columns = <<>>
        /\ m_enabled = o.use
        /\ m_current_benchmark = <<>>
        /\ warmed = ~o.dry_run
        /\ ac = 1
        /\ pi = 1
        /\ fi = 1
        /\ todo = <<>>
        /\ made = <<2>>
        /\ benchmark = [inst |-> 1, id |-> 2, testcase |-> <<"a">>, name |-> <<"q">>,
                        configs |-> Len(added), current |-> <<>>,
                        get_options |-> 1, set_calls |-> <<>>,
                        configurations |-> added]
        /\ ci = 0
        /\ runs = 0
        /\ run = 0
        /\ results = EmptyTable
        /\ rejects = 0
        /\ trace = <<>>
        /\ log = [p \in Printers |-> <<"set_options", p>>] \o
                 [i \in 1..Len(enabled_printers(o.use)) |->
                     <<"start", enabled_printers(o.use)[i]>>]
        /\ sel = NoCounts
        /\ executed = {}
        /\ reported = {}
        /\ error = "none"
        /\ thrown = <<>>

\* the run_benchmark calls of this benchmark, with a run loop that goes on
\* for as long as accept_measurement rejects
RunLoopNext ==
    \/ set_current_configuration
    \/ run_unconfigured
    \/ dry_run
    \/ acquire
    \/ skip
    \/ init
    \/ warmup_iteration
    \/ build_table
    \/ start_benchmark
    \/ measure
    \/ rejected_again
    \/ next_cycle
    \/ result_filter
    \/ end_benchmark
    \/ benchmark_result
    \/ release
    \/ callback_throws

\* the process goes on while it has a step to take: no callback blocks
RunLoopSpec == RunLoopInit /\ [][RunLoopNext]_vars /\ WF_vars(RunLoopNext)

(***************************************************************************)
(* Properties.                                                             *)
(***************************************************************************)
\* the positions of run_benchmark between the acquisition of the slot and
\* the return
Acquired ==
    {"skip", "init", "warmup_iteration", "table", "start_benchmark", "loop",
     "end_benchmark", "benchmark_result", "release"}

Last(s) == s[Len(s)]

\* C1: the slot holds at most one benchmark; it is empty when run_benchmark
\* is entered, so assert(!m_current_benchmark) never fails; it holds the
\* benchmark passed in from the acquisition to the return; it is empty when
\* run_benchmark has returned by the dry-run, skip or normal path.
SlotInvariant ==
    /\ Len(m_current_benchmark) <= 1
    /\ pc = "run_benchmark" => m_current_benchmark = <<>>
    /\ error # "!m_current_benchmark"
    /\ pc \in Acquired =>
          /\ m_current_benchmark = <<benchmark.inst>>
          /\ benchmark.inst = Len(made)
    /\ pc \notin Acquired \cup {"failed", "aborted"} => m_current_benchmark = <<>>

\* the second benchmark's second run_benchmark call has returned by the skip
\* path, after its first call returned by the normal path
SlotWitness ==
    /\ pc = "configurations"
    /\ Len(made) = 2
    /\ sel = [calls |-> 2, skipped |-> 1, tables |-> 1]
    /\ m_current_benchmark = <<>>

\* the callbacks run_benchmark calls while it holds the slot
RunBenchmarkCallbacks ==
    {"skip", "init", "setup", "test_body", "tear_down", "accept_measurement",
     "prepare_table", "store_run", "start_benchmark", "end_benchmark",
     "benchmark_result"}

\* C2: when a callback called by run_benchmark after the acquisition of the
\* slot throws, the slot is empty once control has left run_benchmark.
SlotReleasedOnException ==
    (pc = "failed" /\ thrown # <<>> /\ thrown[1] \in RunBenchmarkCallbacks)
        => m_current_benchmark = <<>>

\* the calls of a callback in the trace of the current run_benchmark call
Calls(name) == {i \in 1..Len(trace) : trace[i][1] = name}

\* the positions of run_benchmark at which the table exists
TableBuilt == {"start_benchmark", "loop", "end_benchmark", "benchmark_result", "release"}

\* the positions of run_benchmark at which the run loop is over
LoopDone == {"end_benchmark", "benchmark_result", "release"}

\* the run count run_benchmark has to use: --runs, else what runs() returned
EffectiveRuns ==
    IF m_options.runs # NotGiven THEN m_options.runs[1]
    ELSE trace[CHOOSE i \in Calls("runs") : TRUE][2]

\* the first call of prepare_table: the cycles after it are measured
Prepared == CHOOSE i \in Calls("prepare_table") : TRUE

\* C3: the table of an executed benchmark ends with exactly R rows, R being
\* --runs if given and else the declared run count; the k-th row has
\* run_number k - 1; neither the warm-up cycle nor a rejected cycle adds a
\* row or advances run.
RowsAndRunNumbers ==
    /\ pc \in TableBuilt =>
          /\ runs = EffectiveRuns
          /\ run <= runs
          /\ Len(results.rows) = run
          /\ Cardinality(Calls("store_run")) = run
          /\ Cardinality(Calls("accept_measurement")) = run + rejects
          /\ Cardinality({i \in Calls("setup") : i > Prepared}) = run + rejects
          /\ \A k \in 1..Len(results.rows) : results.rows[k][RUN_NUMBER] = <<k - 1>>
    /\ pc \in LoopDone => Len(results.rows) = runs
    /\ \A i \in Calls("benchmark_result") : Len(trace[i][3].rows) = runs

\* two declared runs were accepted after a warm-up cycle and one rejected
\* cycle, and the table is ready to leave run_benchmark
RowsWitness ==
    /\ pc = "release"
    /\ m_options.runs = NotGiven
    /\ runs = 2
    /\ rejects = 1
    /\ \E i \in Calls("setup") : i < Prepared
    /\ Len(results.rows) = 2

\* the run_benchmark calls a benchmark with its configuration count gets
ExpectedRuns == IF has_configurations(benchmark) THEN benchmark.configs ELSE 1

\* C4 as stated: a benchmark with K configuration sets produces exactly K
\* dispatched tables per selection, one with zero sets.
TablesPerSelectionAsStated ==
    ConfigurationsDone => sel.tables = ExpectedRuns

\* C4 as amended: the benchmark gets K run_benchmark calls (one with zero
\* sets), and each call that is neither a dry run nor skipped produces one
\* table: K (or one) tables without --dry_run and without a skip.
TablesPerSelection ==
    ConfigurationsDone =>
        /\ sel.calls = ExpectedRuns
        /\ sel.tables = IF m_options.dry_run THEN 0 ELSE ExpectedRuns - sel.skipped

\* two configuration sets were run and two tables dispatched
TablesWitness ==
    /\ ConfigurationsDone
    /\ benchmark.configs = 2
    /\ sel = [calls |-> 2, skipped |-> 0, tables |-> 2]
    /\ enabled_printers(m_enabled) # <<>>

\* C5: when a filter or add-column error is raised, no benchmark callback
\* has been invoked and no table has been dispatched.
ErrorsBeforeExecution ==
    (pc = "failed" /\ error \in FilterErrors \cup {"MalformedAddColumn"})
        => (executed = {} /\ reported = {})

\* the printers the command line enables, in registration order
EnabledInOrder == SortedIds({p \in Printers : m_options.use[p]})

Notifications(name) ==
    [i \in 1..Len(EnabledInOrder) |-> <<name, EnabledInOrder[i]>>]

IsPrefix(s, t) == Len(s) <= Len(t) /\ SubSeq(t, 1, Len(s)) = s

IsNotification(e) == e[1] \in {"start_benchmark", "end_benchmark", "benchmark_result"}

\* what the printers have to be told by one executed run_benchmark call
BenchmarkProtocol ==
    Notifications("start_benchmark") \o Notifications("end_benchmark") \o
    [i \in 1..Len(EnabledInOrder) |-> <<"benchmark_result", EnabledInOrder[i], results>>]

Selecting == {"select", "filter", "iterate", "configurations", "run_benchmark"} \cup Acquired

SetOptionsCalls == [p \in 1..NumPrinters |-> <<"set_options", p>>]

\* C7: set_options reaches every registered printer before any start; the
\* enabled printers get start once before a benchmark is selected and end
\* once after the last benchmark; a printer the options disable gets no
\* start, start_benchmark, end_benchmark, benchmark_result or end.
PrinterLifecycle ==
    /\ IsPrefix(log, SetOptionsCalls \o Notifications("start") \o Notifications("end"))
    /\ pc \in Selecting => log = SetOptionsCalls \o Notifications("start")
    /\ executed # {} => IsPrefix(SetOptionsCalls \o Notifications("start"), log)
    /\ pc = "returned" =>
          log = IF EarlyReturn THEN <<>>
                ELSE SetOptionsCalls \o Notifications("start") \o Notifications("end")
    /\ \A i \in 1..Len(trace) : IsNotification(trace[i]) => m_options.use[trace[i][2]]

\* the run has ended after a benchmark was executed, with the first printer
\* disabled and the second enabled by the command line
LifecycleWitness ==
    /\ pc = "returned"
    /\ m_options.use = <<FALSE, TRUE>>
    /\ reported # {}
    /\ log = <<<<"set_options", 1>>, <<"set_options", 2>>, <<"start", 2>>, <<"end", 2>>>>

\* C8: when skip() returns true, run_benchmark has called nothing but skip,
\* has built and dispatched no table, has notified no printer, and returns
\* with the slot empty.
SkippedBenchmark ==
    [][(pc = "skip" /\ pc' = "configurations") =>
          /\ trace' = <<Call("skip")>>
          /\ results' = EmptyTable
          /\ m_current_benchmark' = <<>>
          /\ sel'.tables = sel.tables
          /\ executed' = executed
          /\ reported' = reported
          /\ log' = log]_vars

\* a run_benchmark call has returned by the skip path
SkippedWitness ==
    /\ pc = "configurations"
    /\ sel.skipped = 1
    /\ trace = <<Call("skip")>>
    /\ m_current_benchmark = <<>>

\* C9: with --dry_run the slot is never acquired, no callback of
\* run_benchmark and no notification happens, the CPU warm-up wait is left
\* out; yet each selected benchmark gets get_options once and
\* set_current_configuration for 0 .. count - 1.
DryRun ==
    m_options.dry_run =>
        /\ m_current_benchmark = <<>>
        /\ pc \notin Acquired
        /\ trace = <<>>
        /\ results = EmptyTable
        /\ ~warmed
        /\ executed = {} /\ reported = {}
        /\ thrown = <<>> \/ thrown[1] \notin RunBenchmarkCallbacks
        /\ ConfigurationsDone =>
              /\ benchmark.get_options = 1
              /\ benchmark.set_calls = [i \in 1..benchmark.configs |-> i - 1]
              /\ sel.calls = ExpectedRuns

\* a dry run has walked the two configurations of a benchmark
DryRunWitness ==
    /\ m_options.dry_run
    /\ ConfigurationsDone
    /\ benchmark.configs = 2
    /\ benchmark.set_calls = <<0, 1>>

\* the names of the --add_column values, in command line order
GivenColumns ==
    [i \in 1..Len(m_options.add_column) |-> ParseAddColumn(m_options.add_column[i]).name]

\* the value the command line gives a column name (the last one, where a
\* build without assertions lets a name repeat)
GivenValue(name) ==
    LET last == CHOOSE i \in DOMAIN GivenColumns :
                    /\ GivenColumns[i] = name
                    /\ \A j \in DOMAIN GivenColumns : GivenColumns[j] = name => j <= i
    IN  ParseAddColumn(m_options.add_column[last]).value

FixedColumns == <<UNIT, BENCHMARK, TESTCASE, ITERATIONS, RUN_NUMBER, TIME>>

\* the positions of run_benchmark at which the table is fresh
FreshTable == {"start_benchmark", "loop"}

\* C10 as stated: the add_column constants come first, in command line
\* order (for a command line that names no column twice).
ColumnOrderAsStated ==
    (/\ pc \in FreshTable
     /\ Cardinality(Range(GivenColumns)) = Len(GivenColumns)) =>
        ColumnNames(results) = GivenColumns \o FixedColumns

\* C10 as amended: the add_column constants come first, one per name, in
\* ascending order of their names; then unit, benchmark, testcase; then the
\* per-row columns iterations, run_number and those of prepare_table; each
\* add_column constant carries the value given for its name.
ColumnOrder ==
    pc \in FreshTable =>
        LET names  == ColumnNames(results)
            custom == Len(names) - Len(FixedColumns)
        IN  /\ custom = Cardinality(Range(GivenColumns))
            /\ {names[i] : i \in 1..custom} = Range(GivenColumns)
            /\ \A i \in 1..(custom - 1) : StrLess(names[i], names[i + 1])
            /\ SubSeq(names, custom + 1, Len(names)) = FixedColumns
            /\ \A i \in 1..Len(names) : results.columns[i].const <=> (i <= custom + 3)
            /\ \A i \in 1..custom : results.columns[i].value = <<GivenValue(names[i])>>
            /\ results.columns[custom + 2].value = <<benchmark.name>>
            /\ results.columns[custom + 3].value = <<benchmark.testcase>>

\* the table was built for --add_column y=2 x=1
ColumnOrderWitness ==
    /\ pc = "loop"
    /\ m_options.add_column = <<<<"y", "=", "2">>, <<"x", "=", "1">>>>
    /\ Len(results.rows) = 1

\* the --add_column value at position j names a column that an earlier
\* value already named
RepeatsColumn(j) ==
    \E i \in 1..(j - 1) : GivenColumns[i] = GivenColumns[j] /\ GivenColumns[j] # <<>>

\* the value the command line gives a column name first
FirstValue(name) ==
    LET first == CHOOSE i \in DOMAIN GivenColumns :
                     /\ GivenColumns[i] = name
                     /\ \A j \in DOMAIN GivenColumns : GivenColumns[j] = name => i <= j
    IN  ParseAddColumn(m_options.add_column[first]).value

\* C11: once parse_add_column has been called with a name that is already
\* present, the run has failed with DuplicateColumn through the exception
\* path, the stored value of the name is the first one given, and no
\* benchmark was executed.
DuplicateColumnFails ==
    \A j \in 1..Len(m_options.add_column) :
        (/\ RepeatsColumn(j)
         /\ j < ac \/ (j = ac /\ pc \in {"failed", "aborted"})) =>
            /\ pc = "failed"
            /\ error = "DuplicateColumn"
            /\ m_columns[GivenColumns[j]] = FirstValue(GivenColumns[j])
            /\ executed = {}

\* run_unsafe has returned after the selection and the end notifications
Finished == pc = "returned" /\ ~EarlyReturn

NoDuplicates(s) == \A i, j \in DOMAIN s : i # j => s[i] # s[j]

\* the whole registry is selected: no filter at all, or the one filter *.*
WholeRegistry == m_options.gauge_filter \in {<<>>, <<Star \o <<".">> \o Star>>}

\* C12: with the filter *.* or without a filter, the benchmarks run are
\* those of every id of the registry, each exactly once and no other id,
\* also when a (test-case, benchmark) name was registered more than once.
SelectAll ==
    WholeRegistry =>
        /\ NoDuplicates(made)
        /\ Range(made) \subseteq DOMAIN m_benchmarks
        /\ executed \subseteq Range(made)
        /\ Finished =>
              /\ Range(made) = DOMAIN m_benchmarks
              /\ DOMAIN m_benchmarks = {Number(ids[i]) : i \in DOMAIN ids}

\* *.* has run both registrations of one name, of which the index holds
\* only the second
SelectAllWitness ==
    /\ Finished
    /\ m_options.gauge_filter = <<Star \o <<".">> \o Star>>
    /\ made = <<2, 3>>
    /\ m_benchmarks[2] = m_benchmarks[3]
    /\ reported = {2, 3}

\* the registration of id i comes no later than that of id j in the order
\* of the test-case index: by test-case name, then by benchmark name
NameOrder(i, j) ==
    LET a == m_benchmarks[i]
        b == m_benchmarks[j]
    IN  \/ StrLess(a.testcase, b.testcase)
        \/ a.testcase = b.testcase /\ (StrLess(a.name, b.name) \/ a.name = b.name)

\* the command line gives one filter, and it has a *
OneStarFilter ==
    /\ Len(m_options.gauge_filter) = 1
    /\ "*" \in Range(m_options.gauge_filter[1])

\* C13 as stated: every * expansion runs its benchmarks in the order of the
\* test-case index, by test-case name and then by benchmark name.
ExpansionOrderAsStated ==
    OneStarFilter =>
        \A i, j \in DOMAIN made : i < j => NameOrder(made[i], made[j])

\* C13 as amended: *.* runs the benchmarks by ascending id, which is the
\* order of their registration; *.<name> and <name>.* run theirs in the
\* order of the test-case index, whatever their ids are.
ExpansionOrder ==
    OneStarFilter =>
        \A i, j \in DOMAIN made : i < j =>
            IF WholeRegistry THEN made[i] < made[j]
            ELSE NameOrder(made[i], made[j]) /\ made[i] # made[j]

\* a.* has run a.m before a.q although a.q was registered first
ExpansionOrderWitness ==
    /\ Finished
    /\ m_options.gauge_filter = <<<<"a", ".", "*">>>>
    /\ made = <<3, 2>>
    /\ m_benchmarks[2].name = <<"q">>
    /\ executed = {2, 3}

\* run_unsafe is at a position at which the current filter is resolved, or
\* every filter is
Resolved ==
    \/ pc \in {"iterate", "configurations", "run_benchmark", "end"} \cup Acquired
    \/ Finished

\* the command line gives the one filter *.<name>
OneBenchmarkOfAll(name) == m_options.gauge_filter = <<Star \o <<".">> \o name>>

\* the test-cases that hold a benchmark of this name
Holding(name) == {tc \in DOMAIN m_testcases : name \in DOMAIN m_testcases[tc]}

\* C14: *.<name> runs exactly the indexed benchmarks called <name>, one per
\* test-case that holds one; it fails with BenchmarkNotFound exactly when no
\* test-case holds one, and then it has run no benchmark.
SelectByBenchmark ==
    \A name \in BenchmarkNames :
        OneBenchmarkOfAll(name) =>
            /\ NoDuplicates(made)
            /\ Range(made) \subseteq {m_testcases[tc][name] : tc \in Holding(name)}
            /\ Finished =>
                  /\ Range(made) = {m_testcases[tc][name] : tc \in Holding(name)}
                  /\ Len(made) = Cardinality(Holding(name))
            /\ Resolved => Holding(name) # {}
            /\ error = "BenchmarkNotFound" =>
                  /\ pc = "failed"
                  /\ Holding(name) = {}
                  /\ made = <<>> /\ executed = {} /\ reported = {}
            /\ error \in FilterErrors => error = "BenchmarkNotFound"

\* *.q has run a.q, once, and nothing of test-case b, which has no q
SelectByBenchmarkWitness ==
    /\ Finished
    /\ OneBenchmarkOfAll(<<"q">>)
    /\ DOMAIN m_testcases = {<<"a">>, <<"b">>}
    /\ Holding(<<"q">>) = {<<"a">>}
    /\ made = <<m_testcases[<<"a">>][<<"q">>]>>
    /\ Cardinality(executed) = 1

\* the command line gives the one filter <tc>.*
AllOfTestcase(tc) == m_options.gauge_filter = <<tc \o <<".">> \o Star>>

\* the ids registered under a test-case name
RegisteredUnder(tc) == {i \in DOMAIN m_benchmarks : m_benchmarks[i].testcase = tc}

\* the test-case index that the registrations alone produce: for each name
\* the id registered last
RegisteredIndex ==
    [tc \in {m_benchmarks[i].testcase : i \in DOMAIN m_benchmarks} |->
        [bm \in {m_benchmarks[i].name : i \in RegisteredUnder(tc)} |->
            CHOOSE i \in RegisteredUnder(tc) :
                /\ m_benchmarks[i].name = bm
                /\ \A j \in RegisteredUnder(tc) : m_benchmarks[j].name = bm => j <= i]]

\* C15 as stated: <tc>.* runs every benchmark that was registered under
\* <tc>, each exactly once.
SelectByTestcaseAsStated ==
    \A tc \in TestcaseNames :
        (AllOfTestcase(tc) /\ Finished) =>
            /\ NoDuplicates(made)
            /\ Range(made) = RegisteredUnder(tc)

\* C15 as amended: <tc>.* runs every benchmark that the test-case index
\* holds under <tc>, each exactly once -- of several registrations of one
\* name only the last; it fails with TestcaseNotFound exactly when nothing
\* was registered under <tc>; the lookup runs nothing then, and no lookup
\* adds an entry to the index.
SelectByTestcase ==
    /\ pc # "static_init" => m_testcases = RegisteredIndex
    /\ \A tc \in TestcaseNames :
          AllOfTestcase(tc) =>
              /\ NoDuplicates(made)
              /\ Range(made) \subseteq RegisteredUnder(tc)
              /\ Finished =>
                    Range(made) = {RegisteredIndex[tc][bm] : bm \in DOMAIN RegisteredIndex[tc]}
              /\ Resolved => RegisteredUnder(tc) # {}
              /\ error = "TestcaseNotFound" =>
                    /\ pc = "failed"
                    /\ RegisteredUnder(tc) = {}
                    /\ made = <<>> /\ executed = {} /\ reported = {}
              /\ error \in FilterErrors => error = "TestcaseNotFound"

\* a.* has run both benchmarks of test-case a, each once
SelectByTestcaseWitness ==
    /\ Finished
    /\ AllOfTestcase(<<"a">>)
    /\ Cardinality(RegisteredUnder(<<"a">>)) = 2
    /\ Len(made) = 2
    /\ executed = RegisteredUnder(<<"a">>)

\* the command line gives the one filter <tc>.<bm>
ExactFilter(tc, bm) == m_options.gauge_filter = <<tc \o <<".">> \o bm>>

NothingRun == made = <<>> /\ executed = {} /\ reported = {}

\* C16: <tc>.<bm> runs exactly one benchmark, the one whose id the index
\* holds for the pair; it fails with TestcaseNotFound when <tc> is absent
\* and with BenchmarkNotFound when <tc> has no <bm>; in both cases nothing
\* is run, and the index is as the registrations left it.
SelectExact ==
    \A tc \in TestcaseNames, bm \in BenchmarkNames :
        (ExactFilter(tc, bm) /\ pc # "static_init") =>
            /\ m_testcases = RegisteredIndex
            /\ Len(made) <= 1
            /\ Resolved => tc \in DOMAIN m_testcases /\ bm \in DOMAIN m_testcases[tc]
            /\ made # <<>> =>
                  /\ made = <<m_testcases[tc][bm]>>
                  /\ m_benchmarks[made[1]] = [testcase |-> tc, name |-> bm]
            /\ Finished => Len(made) = 1
            /\ error = "TestcaseNotFound" =>
                  pc = "failed" /\ tc \notin DOMAIN m_testcases /\ NothingRun
            /\ error = "BenchmarkNotFound" =>
                  /\ pc = "failed" /\ NothingRun
                  /\ tc \in DOMAIN m_testcases /\ bm \notin DOMAIN m_testcases[tc]
            /\ error # "MalformedFilter"

\* a.q has run the second of two registrations of a.q, and nothing else
SelectExactWitness ==
    /\ Finished
    /\ ExactFilter(<<"a">>, <<"q">>)
    /\ DOMAIN m_benchmarks = {2, 3}
    /\ m_benchmarks[2] = m_benchmarks[3]
    /\ made = <<3>>
    /\ executed = {3}

\* a filter string without a '.', or with nothing before its first '.', or
\* with nothing after it
Malformed(filter) ==
    \/ "." \notin Range(filter)
    \/ Head(filter) = "."
    \/ \E i \in DOMAIN filter :
          /\ filter[i] = "."
          /\ \A j \in 1..(i - 1) : filter[j] # "."
          /\ i = Len(filter)

\* C17: a filter without separator, with an empty test-case part or with an
\* empty benchmark part fails with MalformedFilter, never with
\* TestcaseNotFound or BenchmarkNotFound, and runs no benchmark.
MalformedFilterFails ==
    (Len(m_options.gauge_filter) = 1 /\ Malformed(m_options.gauge_filter[1])) =>
        /\ ~Resolved
        /\ NothingRun
        /\ error \in FilterErrors => error = "MalformedFilter"

\* the selections of the first n filters of the command line, one after
\* the other
RECURSIVE Selections(_)
Selections(n) ==
    IF n = 0 THEN <<>>
    ELSE Selections(n - 1) \o
         ResolveFilter(m_options.gauge_filter[n], m_benchmarks, m_testcases).ids

\* every filter of the command line resolves
AllResolve ==
    \A n \in DOMAIN m_options.gauge_filter :
        ResolveFilter(m_options.gauge_filter[n], m_benchmarks, m_testcases).error = "none"

\* C18: when every filter resolves, the benchmarks run are the selections
\* of the filters one after the other in the order the filters were given,
\* without de-duplication; each is run on an instance of its own, fresh from
\* the factory.
FilterConcatenation ==
    (m_options.gauge_filter # <<>> /\ AllResolve /\ pc # "static_init") =>
        /\ IsPrefix(made, Selections(Len(m_options.gauge_filter)))
        /\ pc = "iterate" => made \o todo = Selections(fi)
        /\ Finished => made = Selections(Len(m_options.gauge_filter))
        /\ benchmark # NoBenchmark =>
              /\ benchmark.inst = Len(made)
              /\ benchmark.id = made[Len(made)]
              /\ benchmark.get_options = 1
              /\ Len(benchmark.set_calls) <= benchmark.configs

\* *.* and then a.q have run the one registered benchmark twice
FilterConcatenationWitness ==
    /\ Finished
    /\ m_options.gauge_filter = <<Star \o <<".">> \o Star, <<"a", ".", "q">>>>
    /\ made = <<2, 2>>
    /\ executed = {2}

\* the value of a uint32_t after n increments
RECURSIVE Incremented(_, _)
Incremented(u, n) == IF n = 0 THEN u ELSE Increment(Incremented(u, n - 1))

\* the counter has not passed the maximum during the calls observed
NoWrap == ids = <<>> \/ Less(id0, ids[Len(ids)])

UniqueIdsUnderConcurrency ==
    \A i, j \in DOMAIN ids : i # j => ids[i] # ids[j]

(***************************************************************************)
(* The result filter.                                                      *)
(***************************************************************************)
\* C21: between the run loop and the notifications of the printers,
\* --result_filter removes exactly the named columns the table has, constant
\* or per row; the other columns stay as they are and in their order, no row
\* is added or removed and no remaining value changes; a name that is no
\* column of the table is passed over without an error.
ResultFilter ==
    [][(pc = "loop" /\ pc' \in {"end_benchmark", "release"}) =>
          LET named == Range(m_options.result_filter)
              Kept(c) == c.name \notin named
          IN  /\ results'.columns = SelectSeq(results.columns, Kept)
              /\ Len(results'.rows) = Len(results.rows)
              /\ \A r \in DOMAIN results.rows :
                    /\ DOMAIN results'.rows[r] = RowColumns(results) \ named
                    /\ \A c \in RowColumns(results) \ named :
                          results'.rows[r][c] = results.rows[r][c]
              /\ trace' = trace
              /\ error' = error]_vars

\* a filter that names no column of the table and then a per-row column has
\* been applied to a table of two rows
ResultFilterWitness ==
    /\ pc \in LoopDone
    /\ m_options.result_filter = << <<"k">>, ITERATIONS >>
    /\ Len(results.rows) = 2
    /\ ~has_column(results, ITERATIONS)
    /\ has_column(results, UNIT)
    /\ RUN_NUMBER \in DOMAIN results.rows[2]

(***************************************************************************)
(* The configurations of a benchmark.                                      *)
(***************************************************************************)
\* C23: run_benchmark_configurations calls get_options once; for a
\* benchmark that registered count configurations it sets the current
\* configuration to 0, 1, ..., count - 1 in this order, each once, and each
\* set is followed at once by one run_benchmark call; during that call the
\* index stays what it was set to, so the warm-up cycle and every measured
\* cycle of call i read configuration i.
ConfigurationEnumeration ==
    /\ benchmark # NoBenchmark => benchmark.get_options = 1
    /\ has_configurations(benchmark) =>
          /\ benchmark.configs = Len(benchmark.configurations)
          /\ benchmark.set_calls = [i \in 1..Len(benchmark.set_calls) |-> i - 1]
          /\ Len(benchmark.set_calls) <= benchmark.configs
          /\ sel.calls = Len(benchmark.set_calls)
          /\ pc \in Acquired \cup {"run_benchmark"} =>
                /\ Len(benchmark.set_calls) = ci + 1
                /\ benchmark.current = <<ci>>
                /\ get_current_configuration(benchmark) = benchmark.configurations[ci + 1]
          /\ pc = "configurations" => Len(benchmark.set_calls) = ci
          /\ ConfigurationsDone =>
                benchmark.set_calls = [i \in 1..benchmark.configs |-> i - 1]

\* the second of two configurations is current in a measured cycle of the
\* second run_benchmark call
ConfigurationWitness ==
    /\ pc = "loop"
    /\ run = 1
    /\ benchmark.configs = 2
    /\ benchmark.set_calls = <<0, 1>>
    /\ sel.calls = 2
    /\ get_current_configuration(benchmark)[TYPE] = "decoder"

(***************************************************************************)
(* Constant columns and rows.                                              *)
(***************************************************************************)
\* C24: every constant column of every table of the scheduler and of the
\* file printers (the results, the tables handed to the printers and the
\* tables the file printers have inserted) was declared while the table had
\* no row, the configuration columns a file printer adds in
\* benchmark_result included.
ConstantColumnsBeforeRows ==
    LET tables == {results} \cup
                  {trace[i][3] : i \in Calls("benchmark_result") \cup
                                       Calls("m_tables.insert")}
    IN  \A t \in tables : \A i \in DOMAIN t.columns :
            t.columns[i].const => t.columns[i].declared = 0

(***************************************************************************)
(* Termination of the run loop.                                            *)
(***************************************************************************)
\* C22: if accept_measurement answers true again and again, the run loop of
\* an executed benchmark with a run count above zero comes to an end: after
\* start_benchmark every enabled printer gets end_benchmark and
\* benchmark_result and the slot is released, unless a callback throws;
\* rejected cycles are not limited in number and none of them ends the loop
\* or advances run.
RunLoopTermination ==
    /\ SF_vars(accepted_cycle) =>
          ((pc = "loop" /\ runs > 0) ~>
              \/ /\ pc = "configurations"
                 /\ m_current_benchmark = <<>>
                 /\ Len(results.rows) = runs
                 /\ SelectSeq(trace, IsNotification) = BenchmarkProtocol
              \/ pc = "failed")
    /\ [][(pc \in {"loop", "rejected"} /\ run < runs) =>
            \/ pc' = "failed"
            \/ /\ pc' \in {"loop", "rejected"}
               /\ run' = run \/ <<accepted_cycle>>_vars]_vars

\* the loop has ended after as many rejected cycles as are counted, with
\* both printers notified and the slot released
RunLoopWitness ==
    /\ pc = "configurations"
    /\ m_current_benchmark = <<>>
    /\ rejects = MaxRejects
    /\ runs = 2
    /\ Len(results.rows) = 2
    /\ Len(EnabledInOrder) = 2
    /\ SelectSeq(trace, IsNotification) = BenchmarkProtocol

====
